---- MODULE Spec2Model ----
(***************************************************************************)
(* Fine_Tuning_With_GPT_Neo.ipynb as a state machine.                      *)
(*                                                                         *)
(* The notebook is a straight-line script.  Every statement of its code    *)
(* cells is one action; pc names the statement that runs next and error    *)
(* names the statement whose exception ended the run.  The calls into      *)
(* requests / transformers / datasets are modelled by what they do to the  *)
(* notebook's variables, with their failures as nondeterministic choices.  *)
(***************************************************************************)
EXTENDS Integers, Sequences, FiniteSets, TLC

VARIABLES pc, error, ran, httpGets, response, data, texts, labels,
          tokenizer, loadedTokenizer, padAtCall, encodings, dataset,
          train_dataset, eval_dataset, model, training_args, trainer, fs

vars == <<pc, error, ran, httpGets, response, data, texts, labels,
          tokenizer, loadedTokenizer, padAtCall, encodings, dataset,
          train_dataset, eval_dataset, model, training_args, trainer, fs>>

----------------------------------------------------------------------------
(* Bounds and program constants *)

\* largest number of rows of a fully enumerated server response
MaxRows == 3

\* length=100 in the request URL
Length == 100

\* max_length=512 of the tokenizer call
MaxLength == 512

\* num_labels=2 of the classification head
NumLabels == 2

\* size of the base vocabulary of EleutherAI/gpt-neo-125M
VocabSize == 50257

\* Python's None where an integer id is expected (pad_token_id of a
\* tokenizer or model config that has no pad token)
NoId == -1

\* Python's None where a token string is expected
NoToken == "<None>"

EosToken == "<|endoftext|>"

PadToken == "[PAD]"

NoError == "none"

----------------------------------------------------------------------------
(* The script: its statements in the order the cells list them *)

ProgramSaveBeforeTrain ==
    << "get", "json", "texts", "labels", "load_tokenizer", "pad_guard",
       "tokenize", "from_dict", "split", "load_model", "set_pad_id",
       "resize", "training_args", "trainer", "save_model", "train",
       "save_tokenizer" >>

Program ==
    << "get", "json", "texts", "labels", "load_tokenizer", "pad_guard",
       "tokenize", "from_dict", "split", "load_model", "set_pad_id",
       "resize", "training_args", "trainer", "train", "save_model",
       "save_tokenizer" >>

Index(s) == CHOOSE i \in 1..Len(Program) : Program[i] = s

\* the statement after s, "done" after the last one
Following(s) ==
    IF Index(s) = Len(Program) THEN "done" ELSE Program[Index(s) + 1]

\* The interpreter is about to run statement s.  An uncaught exception ends
\* the run: nothing runs once error is set.
AtIgnoringError(s) == pc = s

At(s) == pc = s /\ error = NoError

\* statement s has returned normally
Returned(s) ==
    /\ \E i \in 1..Len(ran) : ran[i] = s
    /\ error # s

\* statement s returns normally
Return(s) ==
    /\ pc' = Following(s)
    /\ ran' = Append(ran, s)
    /\ error' = error

\* statement s raises; nothing catches it
Raise(s) ==
    /\ pc' = pc
    /\ ran' = Append(ran, s)
    /\ error' = s

----------------------------------------------------------------------------
(* The server's response *)

Texts == {"a", "b c"}

\* label values a row may carry: the two strings the notebook expects and an
\* integer class id, written as a tagged string
LabelValues == {"pos", "neg", "int:1"}

\* a row of data['rows']; hasText / hasLabel say whether row['row'] has the key
WellFormedRows ==
    [hasText : {TRUE}, text : Texts, hasLabel : {TRUE}, label : LabelValues]

MalformedRows ==
    { [hasText |-> FALSE, text |-> "a", hasLabel |-> TRUE, label |-> "pos"],
      [hasText |-> TRUE, text |-> "a", hasLabel |-> FALSE, label |-> "pos"] }

Rows == WellFormedRows \cup MalformedRows

SeqsUpTo(S, n) == UNION { [1..k -> S] : k \in 0..n }

\* the response to a request for Length rows when the split holds that many
FullRows ==
    [i \in 1..Length |->
        [hasText |-> TRUE, text |-> IF i % 2 = 1 THEN "a" ELSE "b c",
         hasLabel |-> TRUE,
         label |-> CASE i % 3 = 0 -> "pos" [] i % 3 = 1 -> "neg"
                     [] OTHER -> "int:1"]]

\* a text of one token more than max_length allows
LongText == "long"

\* a response whose first text has to be truncated
LongRows ==
    << [hasText |-> TRUE, text |-> LongText, hasLabel |-> TRUE, label |-> "pos"],
       [hasText |-> TRUE, text |-> "b c", hasLabel |-> TRUE, label |-> "neg"] >>

\* what requests.get can meet: no connection, a body that is not JSON, a
\* JSON object without 'rows' (the server's error object), or rows
Responses ==
    { [kind |-> k, rows |-> <<>>] : k \in {"no_connection", "not_json", "no_rows"} }
    \cup { [kind |-> "rows", rows |-> r] : r \in SeqsUpTo(Rows, MaxRows) \cup {FullRows, LongRows} }

NoResponse == [kind |-> "none", rows |-> <<>>]

----------------------------------------------------------------------------
(* Cell: fetch data *)

\* response = requests.get(url)
Get ==
    /\ At("get")
    /\ httpGets' = httpGets + 1
    /\ \E r \in Responses :
          IF r.kind = "no_connection"
          THEN /\ Raise("get")
               /\ response' = response
          ELSE /\ Return("get")
               /\ response' = r
    /\ UNCHANGED <<data, texts, labels, tokenizer, loadedTokenizer, padAtCall,
                   encodings, dataset, train_dataset, eval_dataset, model,
                   training_args, trainer, fs>>

\* data = response.json()
Json ==
    /\ At("json")
    /\ IF response.kind = "not_json"
       THEN /\ Raise("json")
            /\ data' = data
       ELSE /\ Return("json")
            /\ data' = [hasRows |-> response.kind = "rows", rows |-> response.rows]
    /\ UNCHANGED <<httpGets, response, texts, labels, tokenizer, loadedTokenizer,
                   padAtCall, encodings, dataset, train_dataset, eval_dataset,
                   model, training_args, trainer, fs>>

----------------------------------------------------------------------------
(* Cell: extract texts and labels *)

LabelOfSwapped(l) == IF l = "pos" THEN 0 ELSE 1

LabelOfStrict(l) == IF l = "neg" THEN 0 ELSE 1

\* 1 if row['row']['label'] == 'pos' else 0
LabelOf(l) == IF l = "pos" THEN 1 ELSE 0

\* texts = [row['row']['text'] for row in data['rows']]
ExtractTexts ==
    /\ At("texts")
    /\ IF ~data.hasRows \/ \E i \in 1..Len(data.rows) : ~data.rows[i].hasText
       THEN /\ Raise("texts")
            /\ texts' = texts
       ELSE /\ Return("texts")
            /\ texts' = [i \in 1..Len(data.rows) |-> data.rows[i].text]
    /\ UNCHANGED <<httpGets, response, data, labels, tokenizer, loadedTokenizer,
                   padAtCall, encodings, dataset, train_dataset, eval_dataset,
                   model, training_args, trainer, fs>>

\* labels = [1 if row['row']['label'] == 'pos' else 0 for row in data['rows']]
ExtractLabels ==
    /\ At("labels")
    /\ IF ~data.hasRows \/ \E i \in 1..Len(data.rows) : ~data.rows[i].hasLabel
       THEN /\ Raise("labels")
            /\ labels' = labels
       ELSE /\ Return("labels")
            /\ labels' = [i \in 1..Len(data.rows) |-> LabelOf(data.rows[i].label)]
    /\ UNCHANGED <<httpGets, response, data, texts, tokenizer, loadedTokenizer,
                   padAtCall, encodings, dataset, train_dataset, eval_dataset,
                   model, training_args, trainer, fs>>

----------------------------------------------------------------------------
(* Cell: load the tokenizer *)

EosId == VocabSize - 1

\* A tokenizer: its pad token (NoToken when unset), the ids of its special
\* and added tokens, and len(tokenizer).
BaseTokenizer ==
    [pad_token |-> NoToken, ids |-> (EosToken :> EosId), len |-> VocabSize]

\* What AutoTokenizer.from_pretrained can hand back: the published GPT-Neo
\* tokenizer, which has no pad token, or one whose pad token is already set.
Tokenizers ==
    { BaseTokenizer, [BaseTokenizer EXCEPT !.pad_token = EosToken] }

\* tokenizer.pad_token_id
PadTokenId(t) == IF t.pad_token = NoToken THEN NoId ELSE t.ids[t.pad_token]

\* tokenizer.add_special_tokens({'pad_token': tok}): the token joins the
\* vocabulary with the next free id unless it is there already, and becomes
\* the pad token
AddPadToken(t, tok) ==
    IF tok \in DOMAIN t.ids
    THEN [t EXCEPT !.pad_token = tok]
    ELSE [t EXCEPT !.pad_token = tok,
                   !.ids = t.ids @@ (tok :> t.len),
                   !.len = t.len + 1]

\* tokenizer = AutoTokenizer.from_pretrained("EleutherAI/gpt-neo-125M")
LoadTokenizer ==
    /\ At("load_tokenizer")
    /\ \/ /\ Raise("load_tokenizer")
          /\ UNCHANGED <<tokenizer, loadedTokenizer>>
       \/ /\ Return("load_tokenizer")
          /\ \E t \in Tokenizers :
                /\ tokenizer' = t
                /\ loadedTokenizer' = t
    /\ UNCHANGED <<httpGets, response, data, texts, labels, padAtCall, encodings,
                   dataset, train_dataset, eval_dataset, model, training_args,
                   trainer, fs>>

----------------------------------------------------------------------------
(* Cell: add pad token, tokenize, build the Dataset *)

GuardedInverted(t) ==
    IF t.pad_token # NoToken THEN AddPadToken(t, PadToken) ELSE t

\* if tokenizer.pad_token is None:
\*     tokenizer.add_special_tokens({'pad_token': '[PAD]'})
Guarded(t) ==
    IF t.pad_token = NoToken THEN AddPadToken(t, PadToken) ELSE t

PadGuard ==
    /\ At("pad_guard")
    /\ Return("pad_guard")
    /\ tokenizer' = Guarded(tokenizer)
    /\ UNCHANGED <<httpGets, response, data, texts, labels, loadedTokenizer,
                   padAtCall, encodings, dataset, train_dataset, eval_dataset,
                   model, training_args, trainer, fs>>

\* the byte-pair encoding of a text
TokenIds(text) ==
    CASE text = "a" -> <<64>>
      [] text = "b c" -> <<65, 269>>
      [] text = LongText -> [j \in 1..(MaxLength + 1) |-> 318]
      [] OTHER -> <<>>

\* truncation=True, max_length=n
Truncate(ids, n) == IF Len(ids) > n THEN SubSeq(ids, 1, n) ELSE ids

Max(S) == IF S = {} THEN 0 ELSE CHOOSE x \in S : \A y \in S : y <= x

\* padding=True: every sequence is filled on the right with the pad id up to
\* the longest sequence of the batch
PadTo(ids, n, pad) == [j \in 1..n |-> IF j <= Len(ids) THEN ids[j] ELSE pad]

MaskTo(ids, n) == [j \in 1..n |-> IF j <= Len(ids) THEN 1 ELSE 0]

\* tokenizer(batch, truncation=True, padding=True, max_length=MaxLength)
Encode(t, batch) ==
    LET cut == [i \in 1..Len(batch) |-> Truncate(TokenIds(batch[i]), MaxLength)]
        longest == Max({ Len(cut[i]) : i \in 1..Len(batch) })
    IN  [input_ids |-> [i \in 1..Len(batch) |-> PadTo(cut[i], longest, PadTokenId(t))],
         attention_mask |-> [i \in 1..Len(batch) |-> MaskTo(cut[i], longest)]]

NoEncodings == [input_ids |-> <<>>, attention_mask |-> <<>>]

\* encodings = tokenizer(texts, truncation=True, padding=True, max_length=512)
\* Padding without a pad token raises.  On an empty batch the call raises or
\* returns empty columns, depending on the tokenizer backend.
Tokenize ==
    /\ At("tokenize")
    /\ padAtCall' = tokenizer.pad_token
    /\ IF tokenizer.pad_token = NoToken
       THEN /\ Raise("tokenize")
            /\ encodings' = encodings
       ELSE \/ /\ Return("tokenize")
               /\ encodings' = Encode(tokenizer, texts)
            \/ /\ texts = <<>>
               /\ Raise("tokenize")
               /\ encodings' = encodings
    /\ UNCHANGED <<httpGets, response, data, texts, labels, tokenizer,
                   loadedTokenizer, dataset, train_dataset, eval_dataset, model,
                   training_args, trainer, fs>>

NoDataset == [input_ids |-> <<>>, attention_mask |-> <<>>, labels |-> <<>>]

\* dataset = Dataset.from_dict({'input_ids': ..., 'attention_mask': ...,
\*                              'labels': labels})
\* Columns of different lengths are refused.
FromDict ==
    /\ At("from_dict")
    /\ IF Len(encodings.input_ids) = Len(labels)
          /\ Len(encodings.attention_mask) = Len(labels)
       THEN /\ Return("from_dict")
            /\ dataset' = [input_ids |-> encodings.input_ids,
                           attention_mask |-> encodings.attention_mask,
                           labels |-> labels]
       ELSE /\ Raise("from_dict")
            /\ dataset' = dataset
    /\ UNCHANGED <<httpGets, response, data, texts, labels, tokenizer,
                   loadedTokenizer, padAtCall, encodings, train_dataset,
                   eval_dataset, model, training_args, trainer, fs>>

----------------------------------------------------------------------------
(* Cell: train_test_split *)

\* ceil(test_size * n) for test_size=0.2
NTest(n) == (n + 4) \div 5

\* with no train_size given, the rest
NTrain(n) == n - NTest(n)

AllOrders(n) ==
    { p \in [1..n -> 1..n] : \A i, j \in 1..n : p[i] = p[j] => i = j }

Rotations(n) == { [i \in 1..n |-> ((i + k - 1) % n) + 1] : k \in 0..(n - 1) }

\* The orders the shuffle can produce.  Every order is explored for a
\* dataset of at most MaxRows rows, the rotations for a longer one.
Shuffles(n) == IF n <= MaxRows THEN AllOrders(n) ELSE Rotations(n)

TrainIndicesOverlapping(perm, n) == SubSeq(perm, NTest(n), n)

\* permutation[n_test : n_test + n_train]
TrainIndices(perm, n) == SubSeq(perm, NTest(n) + 1, NTest(n) + NTrain(n))

\* permutation[:n_test]
TestIndices(perm, n) == SubSeq(perm, 1, NTest(n))

\* train_test_split = dataset.train_test_split(test_size=0.2)
\* train_dataset = train_test_split['train']
\* eval_dataset = train_test_split['test']
\* A split is a pair of index lists over the rows of dataset.  An empty
\* train set is refused.
Split ==
    /\ At("split")
    /\ LET n == Len(dataset.labels)
       IN  IF NTrain(n) = 0
           THEN /\ Raise("split")
                /\ UNCHANGED <<train_dataset, eval_dataset>>
           ELSE /\ Return("split")
                /\ \E perm \in Shuffles(n) :
                      /\ train_dataset' = TrainIndices(perm, n)
                      /\ eval_dataset' = TestIndices(perm, n)
    /\ UNCHANGED <<httpGets, response, data, texts, labels, tokenizer,
                   loadedTokenizer, padAtCall, encodings, dataset, model,
                   training_args, trainer, fs>>

----------------------------------------------------------------------------
(* Cell: load and configure the model *)

NoModel ==
    [pad_token_id |-> NoId, embeddings |-> 0, num_labels |-> 0, trained |-> FALSE]

\* model = GPTNeoForSequenceClassification.from_pretrained(
\*             "EleutherAI/gpt-neo-125M", num_labels=2)
\* The published configuration sets no pad_token_id.
LoadModel ==
    /\ At("load_model")
    /\ \/ /\ Raise("load_model")
          /\ model' = model
       \/ /\ Return("load_model")
          /\ model' = [pad_token_id |-> NoId, embeddings |-> VocabSize,
                       num_labels |-> NumLabels, trained |-> FALSE]
    /\ UNCHANGED <<httpGets, response, data, texts, labels, tokenizer,
                   loadedTokenizer, padAtCall, encodings, dataset, train_dataset,
                   eval_dataset, training_args, trainer, fs>>

ConfiguredPadIdEos(t) == EosId

\* the value assigned to model.config.pad_token_id
ConfiguredPadId(t) == PadTokenId(t)

\* model.config.pad_token_id = tokenizer.pad_token_id
SetPadId ==
    /\ At("set_pad_id")
    /\ Return("set_pad_id")
    /\ model' = [model EXCEPT !.pad_token_id = ConfiguredPadId(tokenizer)]
    /\ UNCHANGED <<httpGets, response, data, texts, labels, tokenizer,
                   loadedTokenizer, padAtCall, encodings, dataset, train_dataset,
                   eval_dataset, training_args, trainer, fs>>

\* model.resize_token_embeddings(len(tokenizer))
Resize ==
    /\ At("resize")
    /\ Return("resize")
    /\ model' = [model EXCEPT !.embeddings = tokenizer.len]
    /\ UNCHANGED <<httpGets, response, data, texts, labels, tokenizer,
                   loadedTokenizer, padAtCall, encodings, dataset, train_dataset,
                   eval_dataset, training_args, trainer, fs>>

----------------------------------------------------------------------------
(* Cell: training arguments *)

\* training_args = TrainingArguments(output_dir="./results", ...)
\* The constructor refuses arguments its version does not know.
TrainingArgs ==
    /\ At("training_args")
    /\ \/ /\ Raise("training_args")
          /\ training_args' = training_args
       \/ /\ Return("training_args")
          /\ training_args' = [output_dir |-> "./results", set |-> TRUE]
    /\ UNCHANGED <<httpGets, response, data, texts, labels, tokenizer,
                   loadedTokenizer, padAtCall, encodings, dataset, train_dataset,
                   eval_dataset, model, trainer, fs>>

----------------------------------------------------------------------------
(* Cell: Trainer setup, train, save *)

\* trainer = Trainer(model=model, args=training_args,
\*                   train_dataset=train_dataset, eval_dataset=eval_dataset)
MakeTrainer ==
    /\ At("trainer")
    /\ \/ /\ Raise("trainer")
          /\ trainer' = trainer
       \/ /\ Return("trainer")
          /\ trainer' = [built |-> TRUE, train |-> train_dataset,
                         eval |-> eval_dataset]
    /\ UNCHANGED <<httpGets, response, data, texts, labels, tokenizer,
                   loadedTokenizer, padAtCall, encodings, dataset, train_dataset,
                   eval_dataset, model, training_args, fs>>

\* trainer.train(): updates the model's weights.  What it writes goes to
\* output_dir and logging_dir, other directories than the one of the final
\* save, which fs stands for.
Train ==
    /\ At("train")
    /\ \/ /\ Raise("train")
          /\ model' = model
       \/ /\ Return("train")
          /\ model' = [model EXCEPT !.trained = TRUE]
    /\ UNCHANGED <<httpGets, response, data, texts, labels, tokenizer,
                   loadedTokenizer, padAtCall, encodings, dataset, train_dataset,
                   eval_dataset, training_args, trainer, fs>>

\* model.save_pretrained("./fine_tuned_gpt_neo"); a save that fails may
\* leave part of its files behind
SaveModel ==
    /\ At("save_model")
    /\ \/ /\ Raise("save_model")
          /\ \E written \in SUBSET {"model.partial"} :
                fs' = [fs EXCEPT !.fine_tuned = @ \cup written]
       \/ /\ Return("save_model")
          /\ fs' = [fs EXCEPT !.fine_tuned = @ \cup {"model"}]
    /\ UNCHANGED <<httpGets, response, data, texts, labels, tokenizer,
                   loadedTokenizer, padAtCall, encodings, dataset, train_dataset,
                   eval_dataset, model, training_args, trainer>>

\* tokenizer.save_pretrained("./fine_tuned_gpt_neo")
SaveTokenizer ==
    /\ At("save_tokenizer")
    /\ \/ /\ Raise("save_tokenizer")
          /\ \E written \in SUBSET {"tokenizer.partial"} :
                fs' = [fs EXCEPT !.fine_tuned = @ \cup written]
       \/ /\ Return("save_tokenizer")
          /\ fs' = [fs EXCEPT !.fine_tuned = @ \cup {"tokenizer"}]
    /\ UNCHANGED <<httpGets, response, data, texts, labels, tokenizer,
                   loadedTokenizer, padAtCall, encodings, dataset, train_dataset,
                   eval_dataset, model, training_args, trainer>>

----------------------------------------------------------------------------
(* The run *)

Init ==
    /\ pc = "get"
    /\ error = NoError
    /\ ran = <<>>
    /\ httpGets = 0
    /\ response = NoResponse
    /\ data = [hasRows |-> FALSE, rows |-> <<>>]
    /\ texts = <<>>
    /\ labels = <<>>
    /\ tokenizer = BaseTokenizer
    /\ loadedTokenizer = BaseTokenizer
    /\ padAtCall = NoToken
    /\ encodings = NoEncodings
    /\ dataset = NoDataset
    /\ train_dataset = <<>>
    /\ eval_dataset = <<>>
    /\ model = NoModel
    /\ training_args = [output_dir |-> "", set |-> FALSE]
    /\ trainer = [built |-> FALSE, train |-> <<>>, eval |-> <<>>]
    /\ fs = [fine_tuned |-> {}]

Next ==
    \/ Get
    \/ Json
    \/ ExtractTexts
    \/ ExtractLabels
    \/ LoadTokenizer
    \/ PadGuard
    \/ Tokenize
    \/ FromDict
    \/ Split
    \/ LoadModel
    \/ SetPadId
    \/ Resize
    \/ TrainingArgs
    \/ MakeTrainer
    \/ Train
    \/ SaveModel
    \/ SaveTokenizer

Spec == Init /\ [][Next]_vars

----------------------------------------------------------------------------
(* Properties *)

Started(s) == \E i \in 1..Len(ran) : ran[i] = s

RowCount == Len(data.rows)

\* C1: once the label extraction has returned, every row whose label is
\* 'pos' has label 1 and every row whose label is 'neg' has label 0.
LabelMapping ==
    Returned("labels") =>
        /\ Len(labels) = RowCount
        /\ \A i \in 1..RowCount :
              /\ data.rows[i].label = "pos" => labels[i] = 1
              /\ data.rows[i].label = "neg" => labels[i] = 0

LabelMappingWitness ==
    /\ Returned("labels")
    /\ \E i, j \in 1..RowCount :
          /\ data.rows[i].label = "pos" /\ labels[i] = 1
          /\ data.rows[j].label = "neg" /\ labels[j] = 0

\* the statements of the eight workflow steps, step after step: data fetch,
\* label mapping, tokenize, split, configure model, configure training,
\* train, save
StepOrder ==
    << "get", "json" >> \o << "texts", "labels" >>
    \o << "load_tokenizer", "pad_guard", "tokenize", "from_dict" >>
    \o << "split" >> \o << "load_model", "set_pad_id", "resize" >>
    \o << "training_args" >> \o << "trainer", "train" >>
    \o << "save_model", "save_tokenizer" >>

ErrorsPropagate ==
    /\ error # NoError =>
          /\ ~ ENABLED Next
          /\ pc = error
          /\ ran # <<>>
          /\ ran[Len(ran)] = error
          /\ Cardinality({ i \in 1..Len(ran) : ran[i] = error }) = 1
    /\ fs.fine_tuned # {} => (Returned("train") /\ model.trained)
    /\ (fs.fine_tuned \cap {"tokenizer", "tokenizer.partial"}) # {}
          => "model" \in fs.fine_tuned

ErrorsPropagateWitness ==
    /\ error = "save_model"
    /\ model.trained
    /\ "tokenizer" \notin fs.fine_tuned
    /\ ~ ENABLED Next

\* C4: the padded tokenizer call is never made while the tokenizer has no
\* pad token; the guard adds '[PAD]' when the loaded tokenizer had none and
\* leaves a tokenizer that had a pad token as it was loaded.
PaddingGuard ==
    /\ Started("tokenize") => padAtCall # NoToken
    /\ Returned("pad_guard") =>
          IF loadedTokenizer.pad_token = NoToken
          THEN /\ tokenizer.pad_token = PadToken
               /\ PadToken \in DOMAIN tokenizer.ids
          ELSE /\ tokenizer.pad_token = loadedTokenizer.pad_token
               /\ tokenizer.len = loadedTokenizer.len
               /\ tokenizer.ids = loadedTokenizer.ids

PaddingGuardWitness ==
    /\ Returned("tokenize")
    /\ loadedTokenizer.pad_token = EosToken
    /\ padAtCall = EosToken
    /\ tokenizer.len = VocabSize

\* C5: from the assignment of model.config.pad_token_id on, it is the
\* tokenizer's pad_token_id, which is an id and is the id every padded
\* position of the dataset holds.
PadIdAgrees ==
    Returned("set_pad_id") =>
        /\ model.pad_token_id = PadTokenId(tokenizer)
        /\ model.pad_token_id # NoId
        /\ \A i \in 1..Len(dataset.input_ids) :
              \A j \in 1..Len(dataset.input_ids[i]) :
                 dataset.attention_mask[i][j] = 0
                     => dataset.input_ids[i][j] = model.pad_token_id

PadIdAgreesWitness ==
    /\ pc = "done"
    /\ loadedTokenizer.pad_token = NoToken
    /\ model.pad_token_id = VocabSize
    /\ \E i \in 1..Len(dataset.input_ids) :
          \E j \in 1..Len(dataset.input_ids[i]) :
             dataset.attention_mask[i][j] = 0

Range(q) == { q[i] : i \in 1..Len(q) }

\* C6: once the split has returned, train_dataset and eval_dataset share no
\* row, together hold every row of the dataset exactly once, and hold 80 and
\* 20 rows when the dataset has the Length rows that were asked for.
SplitPartition ==
    Returned("split") =>
        LET n == Len(dataset.labels)
        IN  /\ Range(train_dataset) \cap Range(eval_dataset) = {}
            /\ Range(train_dataset) \cup Range(eval_dataset) = 1..n
            /\ Len(train_dataset) + Len(eval_dataset) = n
            /\ n = Length => (Len(train_dataset) = 80 /\ Len(eval_dataset) = 20)

SplitPartitionWitness ==
    /\ Returned("split")
    /\ Len(dataset.labels) = Length
    /\ Len(train_dataset) = 80
    /\ Len(eval_dataset) = 20

\* the first n elements of q, all of q when it has fewer
Prefix(q, n) == [j \in 1..(IF Len(q) < n THEN Len(q) ELSE n) |-> q[j]]

\* a padded sequence and its mask hold the token ids toks, then padding
Holds(ids, mask, toks) ==
    /\ Len(ids) = Len(mask)
    /\ Len(ids) >= Len(toks)
    /\ \A j \in 1..Len(ids) :
          IF j <= Len(toks) THEN ids[j] = toks[j] /\ mask[j] = 1
          ELSE mask[j] = 0

\* C7: once the Dataset is built from a response of n rows, texts, labels
\* and each column have n entries; row i of the dataset holds the encoding
\* of row i's text (its first MaxLength tokens) and row i's label; every
\* label is 0 or 1 and is 0 for a label value other than 'pos'.  The label
\* extraction raises only over a row that has no label.
RowAlignment ==
    /\ Returned("from_dict") =>
          /\ Len(texts) = RowCount
          /\ Len(labels) = RowCount
          /\ Len(dataset.input_ids) = RowCount
          /\ Len(dataset.attention_mask) = RowCount
          /\ Len(dataset.labels) = RowCount
          /\ \A i \in 1..RowCount :
                /\ texts[i] = data.rows[i].text
                /\ Holds(dataset.input_ids[i], dataset.attention_mask[i],
                         Prefix(TokenIds(data.rows[i].text), MaxLength))
                /\ Len(dataset.input_ids[i]) <= MaxLength
                /\ dataset.labels[i] \in {0, 1}
                /\ dataset.labels[i] = 1 <=> data.rows[i].label = "pos"
    /\ error = "labels" => \E i \in 1..RowCount : ~data.rows[i].hasLabel

RowAlignmentWitness ==
    /\ Returned("from_dict")
    /\ RowCount >= 2
    /\ \E i, j \in 1..RowCount :
          /\ data.rows[i].label = "int:1" /\ dataset.labels[i] = 0
          /\ data.rows[j].label = "pos" /\ dataset.labels[j] = 1
          /\ dataset.input_ids[i] # dataset.input_ids[j]

====
